---- MODULE Spec2Model ----
(***************************************************************************)
(* A model of pkg/k8smanifest/verify.go: the verifier / fetcher factories, *)
(* ImageSignatureVerifier.Verify with its result cache, and the image and  *)
(* blob manifest fetchers.                                                 *)
(*                                                                         *)
(* Go strings are sequences of tokens, so that splitting on ",", joining   *)
(* with "; ", prefix tests and Sprintf are computed and not assumed.       *)
(* "" is <<>>.  A nil error is <<>>, a *T pointer is {} (nil) or {v}.      *)
(***************************************************************************)
EXTENDS Integers, Sequences, FiniteSets, TLC

\* ------------------------------------------------------------------ bounds

\* The longest comma-separated list of public keys a verifier is built with.
MaxKeys == 2

\* ----------------------------------------------------------------- strings

RECURSIVE Join(_, _)
\* strings.Join(elems, sep)
Join(elems, sep) ==
    IF Len(elems) = 0 THEN <<>>
    ELSE IF Len(elems) = 1 THEN elems[1]
    ELSE elems[1] \o sep \o Join(Tail(elems), sep)

RECURSIVE SplitOn(_, _)
\* strings.Split(s, sep) for a one-token separator: always at least one part.
SplitOn(s, sep) ==
    IF \E j \in 1..Len(s) : s[j] = sep
    THEN LET j == CHOOSE k \in 1..Len(s) :
                     s[k] = sep /\ \A m \in 1..(k - 1) : s[m] # sep
         IN  <<SubSeq(s, 1, j - 1)>> \o SplitOn(SubSeq(s, j + 1, Len(s)), sep)
    ELSE <<s>>

\* k8smnfutil.SplitCommaSeparatedString
SplitCommaSeparatedString(s) == SplitOn(s, ",")

\* strings.HasPrefix(s, prefix)
HasPrefix(s, prefix) ==
    Len(s) >= Len(prefix) /\ SubSeq(s, 1, Len(prefix)) = prefix

\* A variant that reports the last reason alone
VerificationFailedError_LastOnly(allErrs) ==
    <<"signature verification failed: ">>
        \o (IF allErrs = <<>> THEN <<>> ELSE allErrs[Len(allErrs)])

\* fmt.Errorf("signature verification failed: %s", strings.Join(allErrs, "; "))
VerificationFailedError(allErrs) ==
    <<"signature verification failed: ">> \o Join(allErrs, <<"; ">>)

\* errors.Wrap(err, msg): msg, ": ", then the cause's text
Wrap(err, msg) == <<msg, ": ">> \o err

\* --------------------------------------------------------------- constants

SigRefEmbeddedInAnnotation == <<"__embedded_in_annotation__">>

InClusterObjectPrefix == <<"k8s://">>

\* AnnotationConfig: the annotation key of each logical purpose
ImageRefAnnotationKey == "imageRef"

MessageAnnotationKey == "message"

SignatureAnnotationKey == "signature"

\* ------------------------------------------------------------ input domains

Procs == {"p1", "p2"}

\* Image references; "/" is part of ordinary references (repo/app).
ImageRefs == {<<"a">>, <<"a", "/", "b">>}

\* Public key paths; paths contain "/".
PubKeys == {<<"c">>, <<"b", "/", "c">>}

ResourceRefs == {<<"k8s://", "ConfigMap", "/", "ns1", "/", "cm1">>,
                 <<"k8s://", "ConfigMap", "/", "ns1", "/", "cm2">>}

RECURSIVE SeqsUpTo(_, _)
\* The sequences over S of length 1..n
SeqsUpTo(S, n) ==
    IF n = 0 THEN {}
    ELSE LET shorter == SeqsUpTo(S, n - 1)
         IN  {<<x>> : x \in S} \cup shorter
                \cup {<<x>> \o t : x \in S, t \in shorter}

\* *string values for the public-key path: nil, "", or a comma-separated list
PubkeyPathArgs ==
    {{}, {<<>>}} \cup {{Join(ks, <<",">>)} : ks \in SeqsUpTo(PubKeys, MaxKeys)}

\* Explicit signature references handed to the verifier factory
SigRefArgs ==
    {<<>>, SigRefEmbeddedInAnnotation} \cup ImageRefs \cup ResourceRefs

\* Values an image-reference annotation may carry
AnnotationImageRefs == {<<>>, SigRefEmbeddedInAnnotation, <<"a">>}

\* An annotation map from optional values ({} absent, {v} present)
MkAnnotations(img, msg, sig) ==
    [k \in (IF img = {} THEN {} ELSE {ImageRefAnnotationKey})
             \cup (IF msg = {} THEN {} ELSE {MessageAnnotationKey})
             \cup (IF sig = {} THEN {} ELSE {SignatureAnnotationKey}) |->
        IF k = ImageRefAnnotationKey THEN CHOOSE x \in img : TRUE
        ELSE IF k = MessageAnnotationKey THEN CHOOSE x \in msg : TRUE
        ELSE CHOOSE x \in sig : TRUE]

Optional(S) == {{}} \cup {{x} : x \in S}

\* Annotation maps of the objects handed to the verifier factory
AnnotationMaps ==
    {MkAnnotations(img, msg, sig) : img \in Optional(AnnotationImageRefs),
                                    msg \in Optional({<<"msg">>}),
                                    sig \in Optional({<<"sig">>})}

\* The objects verified against the cache: no annotation, or an image reference
ImageAnnotationMaps ==
    {MkAnnotations(img, {}, {}) : img \in Optional({<<"a">>})}

\* ------------------------------------------------------------------- state

VARIABLES
    cache,   \* the shared result cache: cache key |-> stored tuple
    pc,      \* each caller's position
    vst,     \* each caller's verifier and the locals of its Verify() call
    fst      \* each caller's fetcher and the locals of its Fetch() call

vars == <<cache, pc, vst, fst>>

\* ------------------------------------------------------------------- cache

\* k8smnfutil.GetCache: the stored tuple, or an error when the key is absent
GetCache(key) ==
    IF key \in DOMAIN cache
    THEN [result |-> cache[key], err |-> <<>>]
    ELSE [result |-> <<>>, err |-> <<"not found">>]

\* k8smnfutil.SetCache: the cache after a successful Set
SetCache(key, tuple) == (key :> tuple) @@ cache

\* fmt.Sprintf("cache/verify-image/%s/%s", imageRef, pubkey)
VerifyImageCacheKey(imageRef, pubkey) ==
    <<"cache/verify-image/">> \o imageRef \o <<"/">> \o pubkey

CacheInconsistentVerify ==
    <<"cache returns inconsistent data: a length of verify image result must be 4">>

\* A variant that yields the stored error of a failure only
getResultFromCache_ErrOnFailureOnly(imageRef, pubkey) ==
    LET got == GetCache(VerifyImageCacheKey(imageRef, pubkey))
        result == got.result
    IN  IF got.err # <<>>
        THEN [found |-> FALSE, verified |-> FALSE, signerName |-> <<>>,
              signedTimestamp |-> {}, err |-> <<>>]
        ELSE IF Len(result) # 4
        THEN [found |-> FALSE, verified |-> FALSE, signerName |-> <<>>,
              signedTimestamp |-> {}, err |-> CacheInconsistentVerify]
        ELSE [found |-> TRUE, verified |-> result[1], signerName |-> result[2],
              signedTimestamp |-> result[3],
              err |-> IF result[1] THEN <<>> ELSE result[4]]

\* ImageSignatureVerifier.getResultFromCache
getResultFromCache(imageRef, pubkey) ==
    LET got == GetCache(VerifyImageCacheKey(imageRef, pubkey))
        result == got.result
    IN  IF got.err # <<>>
        THEN [found |-> FALSE, verified |-> FALSE, signerName |-> <<>>,
              signedTimestamp |-> {}, err |-> <<>>]
        ELSE IF Len(result) # 4
        THEN [found |-> FALSE, verified |-> FALSE, signerName |-> <<>>,
              signedTimestamp |-> {}, err |-> CacheInconsistentVerify]
        ELSE [found |-> TRUE, verified |-> result[1], signerName |-> result[2],
              signedTimestamp |-> result[3], err |-> result[4]]

\* A variant that stores an outcome without its error
setResultToCache_DropsError(imageRef, pubkey, out, ok) ==
    IF ok
    THEN SetCache(VerifyImageCacheKey(imageRef, pubkey),
                  <<out.verified, out.signerName, out.signedTimestamp, <<>> >>)
    ELSE cache

\* ImageSignatureVerifier.setResultToCache: the cache after the call; a failed
\* Set (ok = FALSE) is only logged.
setResultToCache(imageRef, pubkey, out, ok) ==
    IF ok
    THEN SetCache(VerifyImageCacheKey(imageRef, pubkey),
                  <<out.verified, out.signerName, out.signedTimestamp, out.err>>)
    ELSE cache

\* -------------------------------------------------------------- dispatcher

\* k8smnfcosign.VerifyImage(imageRef, pubkey): what one invocation may return.
\* A success names the signer and the signing time of that image and key, a
\* failure carries its reason.
VerifyImageOutcomes(imageRef, pubkey) ==
    { [verified |-> TRUE,
       signerName |-> <<"signer-of:">> \o imageRef \o <<"#">> \o pubkey,
       signedTimestamp |-> {1000 + Len(imageRef) * 10 + Len(pubkey)},
       err |-> <<>>],
      [verified |-> FALSE, signerName |-> <<>>, signedTimestamp |-> {},
       err |-> <<"verify-error:">> \o imageRef \o <<"#">> \o pubkey] }

\* ----------------------------------------------------------------- factory

\* A variant in which the annotation overrides an explicit image reference
NewSignatureVerifier_AnnotationFirst(annotations, sigRef, pubkeyPath) ==
    LET resourceRef == IF HasPrefix(sigRef, InClusterObjectPrefix) THEN sigRef ELSE <<>>
        imageRef0 == IF HasPrefix(sigRef, InClusterObjectPrefix) THEN <<>> ELSE sigRef
        imageRef == IF ImageRefAnnotationKey \in DOMAIN annotations
                    THEN annotations[ImageRefAnnotationKey]
                    ELSE imageRef0
        pubkeyPathString == IF pubkeyPath # {} /\ pubkeyPath # {<<>>}
                            THEN pubkeyPath ELSE {}
    IN  IF imageRef # <<>> /\ imageRef # SigRefEmbeddedInAnnotation
        THEN [kind |-> "image", imageRef |-> imageRef, resourceRef |-> <<>>,
              annotations |-> <<>>, onMemoryCacheEnabled |-> TRUE,
              pubkeyPathString |-> pubkeyPathString]
        ELSE [kind |-> "blob", imageRef |-> <<>>, resourceRef |-> resourceRef,
              annotations |-> annotations, onMemoryCacheEnabled |-> FALSE,
              pubkeyPathString |-> pubkeyPathString]

\* A variant without the test for the embedded sentinel
NewSignatureVerifier_NoSentinel(annotations, sigRef, pubkeyPath) ==
    LET resourceRef == IF HasPrefix(sigRef, InClusterObjectPrefix) THEN sigRef ELSE <<>>
        imageRef0 == IF HasPrefix(sigRef, InClusterObjectPrefix) THEN <<>> ELSE sigRef
        imageRef == IF imageRef0 = <<>> /\ ImageRefAnnotationKey \in DOMAIN annotations
                    THEN annotations[ImageRefAnnotationKey]
                    ELSE imageRef0
        pubkeyPathString == IF pubkeyPath # {} /\ pubkeyPath # {<<>>}
                            THEN pubkeyPath ELSE {}
    IN  IF imageRef # <<>>
        THEN [kind |-> "image", imageRef |-> imageRef, resourceRef |-> <<>>,
              annotations |-> <<>>, onMemoryCacheEnabled |-> TRUE,
              pubkeyPathString |-> pubkeyPathString]
        ELSE [kind |-> "blob", imageRef |-> <<>>, resourceRef |-> resourceRef,
              annotations |-> annotations, onMemoryCacheEnabled |-> FALSE,
              pubkeyPathString |-> pubkeyPathString]

\* NewSignatureVerifier(objYAMLBytes, sigRef, pubkeyPath, annotationConfig)
NewSignatureVerifier(annotations, sigRef, pubkeyPath) ==
    LET resourceRef == IF HasPrefix(sigRef, InClusterObjectPrefix) THEN sigRef ELSE <<>>
        imageRef0 == IF HasPrefix(sigRef, InClusterObjectPrefix) THEN <<>>
                     ELSE IF sigRef # <<>> THEN sigRef ELSE <<>>
        imageRef == IF imageRef0 = <<>> /\ ImageRefAnnotationKey \in DOMAIN annotations
                    THEN annotations[ImageRefAnnotationKey]
                    ELSE imageRef0
        pubkeyPathString == IF pubkeyPath # {} /\ pubkeyPath # {<<>>}
                            THEN pubkeyPath ELSE {}
    IN  IF imageRef # <<>> /\ imageRef # SigRefEmbeddedInAnnotation
        THEN [kind |-> "image", imageRef |-> imageRef, resourceRef |-> <<>>,
              annotations |-> <<>>, onMemoryCacheEnabled |-> TRUE,
              pubkeyPathString |-> pubkeyPathString]
        ELSE [kind |-> "blob", imageRef |-> <<>>, resourceRef |-> resourceRef,
              annotations |-> annotations, onMemoryCacheEnabled |-> FALSE,
              pubkeyPathString |-> pubkeyPathString]

\* ----------------------------------------------- ImageSignatureVerifier.Verify

NoOutcome ==
    [verified |-> FALSE, signerName |-> <<>>, signedTimestamp |-> {}, err |-> <<>>]

\* A caller with no verifier
VIdle ==
    [in |-> <<>>, v |-> <<>>, pubkeys |-> <<>>, i |-> 0, cacheFoundCount |-> 0,
     allErrs |-> <<>>, out |-> NoOutcome, reads |-> <<>>, calls |-> <<>>,
     sets |-> <<>>, ret |-> <<>>]

\* A caller with no fetcher
FIdle ==
    [in |-> <<>>, f |-> <<>>, annotations |-> <<>>, mode |-> "", refs |-> <<>>,
     i |-> 0, bytes |-> <<>>, err |-> <<>>, reads |-> <<>>, pulls |-> <<>>,
     sets |-> <<>>, collab |-> <<>>, yamls |-> <<>>, ret |-> <<>>]

\* What Verify() returns: (verified, signerName, signedTimestamp, err)
Returned(verified, signerName, signedTimestamp, err) ==
    [verified |-> verified, signerName |-> signerName,
     signedTimestamp |-> signedTimestamp, err |-> err]

\* The positions at which a caller is between calls
Resting == {"idle", "verifier", "vdone", "fetcher", "fdone"}

\* The factory call: a caller builds a verifier for a target object.
NewVerifier(p, annotationMaps, sigRefs, pubkeyPaths) ==
    /\ pc[p] \in Resting
    /\ \E annotations \in annotationMaps, sigRef \in sigRefs,
          pubkeyPath \in pubkeyPaths :
          vst' = [vst EXCEPT ![p] =
                    [VIdle EXCEPT
                       !.in = [annotations |-> annotations, sigRef |-> sigRef,
                               pubkeyPath |-> pubkeyPath],
                       !.v = NewSignatureVerifier(annotations, sigRef, pubkeyPath)]]
    /\ pc' = [pc EXCEPT ![p] = "verifier"]
    /\ fst' = [fst EXCEPT ![p] = FIdle]
    /\ UNCHANGED cache

\* Verify(), lines 79-96: the reference check and the key list.
VerifyBegin(p) ==
    LET v == vst[p].v
        pubkeys == IF v.pubkeyPathString # {} /\ v.pubkeyPathString # {<<>>}
                   THEN SplitCommaSeparatedString(
                            CHOOSE s \in v.pubkeyPathString : TRUE)
                   ELSE << <<>> >>
    IN  /\ pc[p] = "verifier"
        /\ v.kind = "image"
        /\ IF v.imageRef = <<>>
           THEN /\ vst' = [vst EXCEPT ![p].in = <<>>,
                              ![p].ret = Returned(FALSE, <<>>, {},
                                            <<"no image reference is found">>)]
                /\ pc' = [pc EXCEPT ![p] = "vdone"]
           ELSE /\ vst' = [vst EXCEPT ![p].in = <<>>, ![p].pubkeys = pubkeys,
                              ![p].i = 1]
                /\ pc' = [pc EXCEPT ![p] =
                            IF v.onMemoryCacheEnabled THEN "vcache" ELSE "vlive"]
        /\ UNCHANGED <<cache, fst>>

\* A variant that verifies live whenever the cache holds no success
CacheLookup_LiveUnlessSuccess(p) ==
    LET st == vst[p]
        pubkey == st.pubkeys[st.i]
        r == getResultFromCache(st.v.imageRef, pubkey)
        count == IF r.found THEN st.cacheFoundCount + 1 ELSE st.cacheFoundCount
        allErrs == IF r.found /\ r.verified THEN st.allErrs
                   ELSE IF r.err # <<>> THEN Append(st.allErrs, r.err)
                   ELSE st.allErrs
        seen == [st EXCEPT
                    !.out = [verified |-> r.verified, signerName |-> r.signerName,
                             signedTimestamp |-> r.signedTimestamp, err |-> r.err],
                    !.cacheFoundCount = count,
                    !.allErrs = allErrs,
                    !.reads = Append(st.reads, [pubkey |-> pubkey, r |-> r])]
    IN  /\ pc[p] = "vcache"
        /\ IF r.found /\ r.verified
           THEN /\ vst' = [vst EXCEPT ![p] =
                            [seen EXCEPT !.ret = Returned(r.verified, r.signerName,
                                                    r.signedTimestamp, r.err)]]
                /\ pc' = [pc EXCEPT ![p] = "vdone"]
           ELSE IF st.i < Len(st.pubkeys)
           THEN /\ vst' = [vst EXCEPT ![p] = [seen EXCEPT !.i = st.i + 1]]
                /\ pc' = pc
           ELSE /\ vst' = [vst EXCEPT ![p] = [seen EXCEPT !.i = 1, !.allErrs = <<>>]]
                /\ pc' = [pc EXCEPT ![p] = "vlive"]
        /\ UNCHANGED <<cache, fst>>

\* Verify(), lines 100-118: one turn of the cache loop, and what follows it.
CacheLookup(p) ==
    LET st == vst[p]
        pubkey == st.pubkeys[st.i]
        r == getResultFromCache(st.v.imageRef, pubkey)
        count == IF r.found THEN st.cacheFoundCount + 1 ELSE st.cacheFoundCount
        allErrs == IF r.found /\ r.verified THEN st.allErrs
                   ELSE IF r.err # <<>> THEN Append(st.allErrs, r.err)
                   ELSE st.allErrs
        seen == [st EXCEPT
                    !.out = [verified |-> r.verified, signerName |-> r.signerName,
                             signedTimestamp |-> r.signedTimestamp, err |-> r.err],
                    !.cacheFoundCount = count,
                    !.allErrs = allErrs,
                    !.reads = Append(st.reads, [pubkey |-> pubkey, r |-> r])]
    IN  /\ pc[p] = "vcache"
        /\ IF r.found /\ r.verified
           THEN /\ vst' = [vst EXCEPT ![p] =
                            [seen EXCEPT !.ret = Returned(r.verified, r.signerName,
                                                    r.signedTimestamp, r.err)]]
                /\ pc' = [pc EXCEPT ![p] = "vdone"]
           ELSE IF st.i < Len(st.pubkeys)
           THEN /\ vst' = [vst EXCEPT ![p] = [seen EXCEPT !.i = st.i + 1]]
                /\ pc' = pc
           ELSE IF ~r.verified /\ count = Len(st.pubkeys)
           THEN /\ vst' = [vst EXCEPT ![p] =
                            [seen EXCEPT !.ret = Returned(FALSE, <<>>, {},
                                                    VerificationFailedError(allErrs))]]
                /\ pc' = [pc EXCEPT ![p] = "vdone"]
           ELSE /\ vst' = [vst EXCEPT ![p] = [seen EXCEPT !.i = 1, !.allErrs = <<>>]]
                /\ pc' = [pc EXCEPT ![p] = "vlive"]
        /\ UNCHANGED <<cache, fst>>

\* A variant that goes on to the next key after a success
AfterLive_NoEarlyReturn(st) ==
    LET allErrs == IF st.out.err # <<>> THEN Append(st.allErrs, st.out.err)
                   ELSE st.allErrs
    IN  IF st.i < Len(st.pubkeys)
        THEN [pc |-> "vlive", st |-> [st EXCEPT !.allErrs = allErrs, !.i = st.i + 1]]
        ELSE IF st.out.verified
        THEN [pc |-> "vdone",
              st |-> [st EXCEPT !.ret = Returned(st.out.verified, st.out.signerName,
                                            st.out.signedTimestamp, st.out.err)]]
        ELSE [pc |-> "vdone",
              st |-> [st EXCEPT !.allErrs = allErrs,
                         !.ret = Returned(FALSE, <<>>, {},
                                    VerificationFailedError(allErrs))]]

\* Verify(), lines 132-138: after one key's verification (and its cache write).
\* The caller's next position and locals.
AfterLive(st) ==
    IF st.out.verified
    THEN [pc |-> "vdone",
          st |-> [st EXCEPT !.ret = Returned(st.out.verified, st.out.signerName,
                                        st.out.signedTimestamp, st.out.err)]]
    ELSE LET allErrs == IF st.out.err # <<>> THEN Append(st.allErrs, st.out.err)
                        ELSE st.allErrs
         IN  IF st.i < Len(st.pubkeys)
             THEN [pc |-> "vlive", st |-> [st EXCEPT !.allErrs = allErrs, !.i = st.i + 1]]
             ELSE [pc |-> "vdone",
                   st |-> [st EXCEPT !.allErrs = allErrs,
                              !.ret = Returned(FALSE, <<>>, {},
                                         VerificationFailedError(allErrs))]]

\* A variant that does not write the outcome to the cache
LiveVerify_NoWrite(p) ==
    LET st == vst[p]
        pubkey == st.pubkeys[st.i]
    IN  /\ pc[p] = "vlive"
        /\ \E o \in VerifyImageOutcomes(st.v.imageRef, pubkey) :
              LET called == [st EXCEPT !.out = o,
                                !.calls = Append(st.calls,
                                            [pubkey |-> pubkey, out |-> o])]
              IN  /\ vst' = [vst EXCEPT ![p] = AfterLive(called).st]
                  /\ pc' = [pc EXCEPT ![p] = AfterLive(called).pc]
        /\ UNCHANGED <<cache, fst>>

\* Verify(), line 125: the dispatcher is invoked for the current key.
LiveVerify(p) ==
    LET st == vst[p]
        pubkey == st.pubkeys[st.i]
    IN  /\ pc[p] = "vlive"
        /\ \E o \in VerifyImageOutcomes(st.v.imageRef, pubkey) :
              LET called == [st EXCEPT !.out = o,
                                !.calls = Append(st.calls,
                                            [pubkey |-> pubkey, out |-> o])]
              IN  IF st.v.onMemoryCacheEnabled
                  THEN /\ vst' = [vst EXCEPT ![p] = called]
                       /\ pc' = [pc EXCEPT ![p] = "vset"]
                  ELSE /\ vst' = [vst EXCEPT ![p] = AfterLive(called).st]
                       /\ pc' = [pc EXCEPT ![p] = AfterLive(called).pc]
        /\ UNCHANGED <<cache, fst>>

\* A variant that returns the error of a failed cache write
LiveSet_RaisesSetError(p) ==
    LET st == vst[p]
        pubkey == st.pubkeys[st.i]
    IN  /\ pc[p] = "vset"
        /\ \E ok \in BOOLEAN :
              LET written == [st EXCEPT !.sets = Append(st.sets,
                                            [pubkey |-> pubkey, ok |-> ok])]
              IN  /\ cache' = setResultToCache(st.v.imageRef, pubkey, st.out, ok)
                  /\ IF ok
                     THEN /\ vst' = [vst EXCEPT ![p] = AfterLive(written).st]
                          /\ pc' = [pc EXCEPT ![p] = AfterLive(written).pc]
                     ELSE /\ vst' = [vst EXCEPT ![p] =
                                       [written EXCEPT !.ret =
                                           Returned(FALSE, <<>>, {},
                                                    <<"cache set error">>)]]
                          /\ pc' = [pc EXCEPT ![p] = "vdone"]
        /\ UNCHANGED fst

\* Verify(), lines 127-137: the outcome is written to the cache, then judged.
LiveSet(p) ==
    LET st == vst[p]
        pubkey == st.pubkeys[st.i]
    IN  /\ pc[p] = "vset"
        /\ \E ok \in BOOLEAN :
              LET written == [st EXCEPT !.sets = Append(st.sets,
                                            [pubkey |-> pubkey, ok |-> ok])]
              IN  /\ cache' = setResultToCache(st.v.imageRef, pubkey, st.out, ok)
                  /\ vst' = [vst EXCEPT ![p] = AfterLive(written).st]
                  /\ pc' = [pc EXCEPT ![p] = AfterLive(written).pc]
        /\ UNCHANGED fst


\* ------------------------------------------------ BlobSignatureVerifier.Verify

\* The fixed keys of a config object's data map and of the signature map
MessageAnnotationBaseName == "message"

SignatureAnnotationBaseName == "signature"

CertificateAnnotationBaseName == "certificate"

BundleAnnotationBaseName == "bundle"

\* AnnotationConfig: the annotation keys of the certificate and the bundle
CertificateAnnotationKey == "certificate"

BundleAnnotationKey == "bundle"

\* The four fields of a signature source, each absent ({}) or present with a
\* value; a required field may be present and empty
BlobFieldMaps ==
    { [k \in (IF msg = {} THEN {} ELSE {"message"})
               \cup (IF sig = {} THEN {} ELSE {"signature"})
               \cup (IF cert = {} THEN {} ELSE {"certificate"})
               \cup (IF bundle = {} THEN {} ELSE {"bundle"}) |->
          IF k = "message" THEN CHOOSE x \in msg : TRUE
          ELSE IF k = "signature" THEN CHOOSE x \in sig : TRUE
          ELSE IF k = "certificate" THEN CHOOSE x \in cert : TRUE
          ELSE CHOOSE x \in bundle : TRUE] :
        msg \in Optional({<<>>, <<"msg">>}), sig \in Optional({<<>>, <<"sig">>}),
        cert \in Optional({<<"cert">>}), bundle \in Optional({<<"bundle">>}) }

\* map[key] of a map[string]string: "" when the key is absent
Lookup(m, k) == IF k \in DOMAIN m THEN m[k] ELSE <<>>

\* GetConfigMapFromK8sObjectRef, for the verifier: the lookup fails, or
\* returns a config map with this data map
ConfigMapDataOutcomes(cmRef) ==
    {[err |-> <<"configmap unavailable: ">> \o cmRef, data |-> <<>>]}
        \cup {[err |-> <<>>, data |-> d] : d \in BlobFieldMaps}

\* The signature map of lines 247-258: the non-empty fields only
MkSigMap(msg, sig, cert, bundle) ==
    [k \in (IF msg # <<>> THEN {MessageAnnotationBaseName} ELSE {})
             \cup (IF sig # <<>> THEN {SignatureAnnotationBaseName} ELSE {})
             \cup (IF cert # <<>> THEN {CertificateAnnotationBaseName} ELSE {})
             \cup (IF bundle # <<>> THEN {BundleAnnotationBaseName} ELSE {}) |->
        IF k = MessageAnnotationBaseName THEN msg
        ELSE IF k = SignatureAnnotationBaseName THEN sig
        ELSE IF k = CertificateAnnotationBaseName THEN cert
        ELSE bundle]

\* BlobSignatureVerifier.getSignatures, given the config map lookup's outcome
getSignatures(v, cm) ==
    IF v.resourceRef # <<>>
    THEN IF cm.err # <<>>
         THEN [sigMap |-> <<>>, err |-> Wrap(cm.err, "failed to get a configmap")]
         ELSE IF MessageAnnotationBaseName \notin DOMAIN cm.data
         THEN [sigMap |-> <<>>,
               err |-> <<MessageAnnotationBaseName, " is not found in the configmap ">>
                           \o v.resourceRef]
         ELSE IF SignatureAnnotationBaseName \notin DOMAIN cm.data
         THEN [sigMap |-> <<>>,
               err |-> <<SignatureAnnotationBaseName, " is not found in the configmap ">>
                           \o v.resourceRef]
         ELSE [sigMap |-> MkSigMap(cm.data[MessageAnnotationBaseName],
                                   cm.data[SignatureAnnotationBaseName],
                                   Lookup(cm.data, CertificateAnnotationBaseName),
                                   Lookup(cm.data, BundleAnnotationBaseName)),
               err |-> <<>>]
    ELSE IF MessageAnnotationKey \notin DOMAIN v.annotations
    THEN [sigMap |-> <<>>,
          err |-> <<MessageAnnotationKey, " is not found in the annotations">>]
    ELSE IF SignatureAnnotationKey \notin DOMAIN v.annotations
    THEN [sigMap |-> <<>>,
          err |-> <<SignatureAnnotationKey, " is not found in the annotations">>]
    ELSE [sigMap |-> MkSigMap(v.annotations[MessageAnnotationKey],
                              v.annotations[SignatureAnnotationKey],
                              Lookup(v.annotations, CertificateAnnotationKey),
                              Lookup(v.annotations, BundleAnnotationKey)),
          err |-> <<>>]

\* Public-key configurations of a blob verifier, one of each shape
BlobPubkeyPathArgs ==
    {{}, {<<"cosign.pub">>}, {<<"pgp.key">>}, {<<"x509.crt">>}, {<<"unreadable">>}}

\* sigtypes.GetSignatureTypeFromPublicKey: the scheme a key configuration
\* stands for; none or a cosign key is cosign
GetSignatureTypeFromPublicKey(pubkeyPathString) ==
    IF pubkeyPathString = {} \/ pubkeyPathString = {<<"cosign.pub">>} THEN "cosign"
    ELSE IF pubkeyPathString = {<<"pgp.key">>} THEN "pgp"
    ELSE IF pubkeyPathString = {<<"x509.crt">>} THEN "x509"
    ELSE "unknown"

\* k8smnfcosign.VerifyBlob, pgp.VerifyBlob, x509.VerifyBlob: what one
\* invocation may return
VerifyBlobOutcomes(sigType) ==
    { Returned(TRUE, <<"blob-signer:", sigType>>, {}, <<>>),
      Returned(FALSE, <<>>, {}, <<"blob-verify-error:", sigType>>) }

\* The arguments a scheme dispatcher is handed (lines 200-204)
VerifyBlobArgs(sigType, sigMap) ==
    [sigType |-> sigType,
     fields |-> IF sigType = "cosign" THEN DOMAIN sigMap
                ELSE IF sigType = "pgp"
                THEN DOMAIN sigMap \ {CertificateAnnotationBaseName,
                                      BundleAnnotationBaseName}
                ELSE DOMAIN sigMap \ {BundleAnnotationBaseName},
     msgBytes |-> Lookup(sigMap, MessageAnnotationBaseName),
     sigBytes |-> Lookup(sigMap, SignatureAnnotationBaseName)]

\* BlobSignatureVerifier.Verify, lines 185-208.  reads keeps the config map
\* lookup, calls the dispatcher invocation.
BlobVerify(p) ==
    LET st == vst[p]
        v == st.v
        sigType == GetSignatureTypeFromPublicKey(v.pubkeyPathString)
    IN  /\ pc[p] = "verifier"
        /\ v.kind = "blob"
        /\ \E cm \in (IF v.resourceRef # <<>> THEN ConfigMapDataOutcomes(v.resourceRef)
                      ELSE {[err |-> <<>>, data |-> <<>>]}) :
              LET got == getSignatures(v, cm)
                  looked == [st EXCEPT !.reads = IF v.resourceRef # <<>>
                                                 THEN <<cm>> ELSE <<>>]
              IN  IF got.err # <<>>
                  THEN vst' = [vst EXCEPT ![p] =
                                 [looked EXCEPT !.ret =
                                     Returned(FALSE, <<>>, {},
                                              Wrap(got.err, "failed to get signature"))]]
                  ELSE IF sigType = "unknown"
                  THEN vst' = [vst EXCEPT ![p] =
                                 [looked EXCEPT !.ret =
                                     Returned(FALSE, <<>>, {},
                                       <<"failed to judge signature type from public key configuration">>)]]
                  ELSE \E o \in VerifyBlobOutcomes(sigType) :
                          vst' = [vst EXCEPT ![p] =
                                    [looked EXCEPT
                                       !.calls = <<VerifyBlobArgs(sigType, got.sigMap)>>,
                                       !.ret = o]]
        /\ pc' = [pc EXCEPT ![p] = "vdone"]
        /\ UNCHANGED <<cache, fst>>

\* ------------------------------------------------------- encodings, matcher

\* base64.StdEncoding.DecodeString: the text after the "b64:" mark
Base64Decode(str) ==
    IF str = <<>>
    THEN [bytes |-> <<>>, err |-> <<>>]
    ELSE IF Head(str) = "b64:"
    THEN [bytes |-> Tail(str), err |-> <<>>]
    ELSE [bytes |-> <<>>, err |-> <<"illegal base64 data">>]

\* k8smnfutil.GzipDecompress: the tar ball inside a gzip stream (no error value)
GzipDecompress(gzipMsg) ==
    IF gzipMsg # <<>> /\ Head(gzipMsg) = "gz:" THEN Tail(gzipMsg) ELSE <<>>

\* k8smnfutil.GetYAMLsInArtifact: the YAML files of a tar ball, one token each
GetYAMLsInArtifact(tarBall) ==
    IF tarBall # <<>> /\ Head(tarBall) = "tar:"
    THEN [yamls |-> [n \in 1..(Len(tarBall) - 1) |-> <<tarBall[n + 1]>>],
          err |-> <<>>]
    ELSE [yamls |-> <<>>, err |-> <<"unexpected EOF">>]

\* k8smnfutil.ConcatenateYAMLs
ConcatenateYAMLs(yamls) == Join(yamls, <<"---">>)

\* k8smnfutil.SplitConcatYAMLs
SplitConcatYAMLs(concatYAMLbytes) ==
    SelectSeq(SplitOn(concatYAMLbytes, "---"), LAMBDA d : d # <<>>)

\* The documents that describe the target object
MatchingDocs == {<<"a:obj">>, <<"ab:obj">>, <<"cm1:obj">>, <<"cm2:obj">>, <<"anno:obj">>}

\* k8smnfutil.FindManifestYAML(concatYAMLbytes, objYAMLBytes, ...): (found, manifests)
FindManifestYAML(concatYAMLbytes) ==
    LET matches == SelectSeq(SplitConcatYAMLs(concatYAMLbytes),
                             LAMBDA d : d \in MatchingDocs)
    IN  [found |-> matches # <<>>, manifests |-> matches]

\* ------------------------------------------------------- fetch-manifest cache

\* fmt.Sprintf("cache/fetch-manifest/%s", imageRef)
FetchManifestCacheKey(imageRef) == <<"cache/fetch-manifest/">> \o imageRef

CacheInconsistentFetch ==
    <<"cache returns inconsistent data: a length of fetch manifest result must be 2">>

\* ImageManifestFetcher.getManifestFromCache.  A stored payload is
\* [type |-> "bytes" | "string" | "nil", val |-> ...].
getManifestFromCache(imageRef) ==
    LET got == GetCache(FetchManifestCacheKey(imageRef))
        result == got.result
    IN  IF got.err # <<>>
        THEN [found |-> FALSE, bytes |-> <<>>, err |-> <<>>]
        ELSE IF Len(result) # 2
        THEN [found |-> FALSE, bytes |-> <<>>, err |-> CacheInconsistentFetch]
        ELSE [found |-> TRUE,
              bytes |-> IF result[1].type = "bytes" THEN result[1].val
                        ELSE IF result[1].type = "string"
                                  /\ Base64Decode(result[1].val).err = <<>>
                        THEN Base64Decode(result[1].val).bytes
                        ELSE <<>>,
              err |-> result[2]]

\* ImageManifestFetcher.setManifestToCache: the cache after the call
setManifestToCache(imageRef, concatYAMLbytes, err, ok) ==
    IF ok
    THEN SetCache(FetchManifestCacheKey(imageRef),
                  <<[type |-> "bytes", val |-> concatYAMLbytes], err>>)
    ELSE cache

\* ------------------------------------------------------------ collaborators

\* The documents an image holds: one of another object, one of the target
DocsOf(imageRef) ==
    IF imageRef = <<"a">> THEN [other |-> "a:x", obj |-> "a:obj"]
    ELSE [other |-> "ab:x", obj |-> "ab:obj"]

\* ImageManifestFetcher.getConcatYAMLFromImageRef: what one pull may return
PullOutcomes(imageRef) ==
    { [bytes |-> <<>>, err |-> <<"pull-error:">> \o imageRef],
      [bytes |-> <<DocsOf(imageRef).other>>, err |-> <<>>],
      [bytes |-> <<DocsOf(imageRef).other, "---", DocsOf(imageRef).obj>>,
       err |-> <<>>] }

\* The message field of a config map: absent, or one of these values
CMDoc(ref) == IF ref[Len(ref)] = "cm1" THEN "cm1:obj" ELSE "cm2:obj"

\* GetConfigMapFromK8sObjectRef: the lookup fails, or returns the data map's
\* message field ({} when the map has none)
ConfigMapOutcomes(ref) ==
    { [err |-> <<"failed to get a configmap: ">> \o ref, message |-> {}],
      [err |-> <<>>, message |-> {}],
      [err |-> <<>>, message |-> {<<"garbage">>}],
      [err |-> <<>>, message |-> {<<"b64:", "gz:", "tar:", "cm:x">>}],
      [err |-> <<>>, message |-> {<<"b64:", "gz:", "tar:", "cm:x", CMDoc(ref)>>}] }

\* BlobManifestFetcher.fetchManifestInSingleConfigMap, given the lookup's outcome
fetchManifestInSingleConfigMap(singleCMRef, cm) ==
    IF cm.err # <<>>
    THEN [bytes |-> <<>>, err |-> Wrap(cm.err, "failed to get a configmap")]
    ELSE IF cm.message = {}
    THEN [bytes |-> <<>>,
          err |-> <<"failed to find message in a configmap ">> \o singleCMRef]
    ELSE LET base64Msg == CHOOSE m \in cm.message : TRUE
             decoded == Base64Decode(base64Msg)
             got == GetYAMLsInArtifact(GzipDecompress(decoded.bytes))
         IN  IF decoded.err # <<>>
             THEN [bytes |-> <<>>,
                   err |-> Wrap(decoded.err,
                                "failed to decode base64 message in the configmap")]
             ELSE IF got.err # <<>>
             THEN [bytes |-> <<>>,
                   err |-> Wrap(got.err, "failed to read YAMLs in the gzipped message")]
             ELSE [bytes |-> ConcatenateYAMLs(got.yamls), err |-> <<>>]

\* ------------------------------------------------------------ fetcher factory

\* The longest comma-separated list of references a fetcher is built with.
MaxRefs == 2

\* Comma-separated lists of image references, or "" for none
ImageRefArgs ==
    {<<>>} \cup {Join(rs, <<",">>) : rs \in SeqsUpTo(ImageRefs, MaxRefs)}

\* Comma-separated lists of resource references, or "" for none
ResourceRefArgs ==
    {<<>>} \cup {Join(rs, <<",">>) : rs \in SeqsUpTo(ResourceRefs, MaxRefs)}

\* The message annotation of a target object: not base64, not an archive, an
\* archive without the object, an archive with it (and the empty string)
MessageValues ==
    {<<>>, <<"garbage">>, <<"b64:", "junk">>, <<"b64:", "gz:", "tar:", "anno:x">>,
     <<"b64:", "gz:", "tar:", "anno:x", "anno:obj">>}

\* Annotation maps of the objects handed to Fetch()
FetchAnnotationMaps ==
    {MkAnnotations(img, msg, {}) : img \in Optional({<<"a">>}),
                                   msg \in Optional(MessageValues)}

\* NewManifestFetcher(imageRef, resourceRef, ...)
NewManifestFetcher(imageRef, resourceRef) ==
    IF imageRef # <<>>
    THEN [kind |-> "image", imageRefString |-> imageRef,
          resourceRefString |-> <<>>, cacheEnabled |-> TRUE]
    ELSE [kind |-> "blob", imageRefString |-> <<>>,
          resourceRefString |-> resourceRef, cacheEnabled |-> FALSE]

\* What Fetch() returns: (manifests, resolved reference, err)
FetchReturned(manifests, ref, err) ==
    [manifests |-> manifests, ref |-> ref, err |-> err]

\* The factory call: a caller builds a manifest fetcher.
NewFetcher(p, imageRefs, resourceRefs) ==
    /\ pc[p] \in Resting
    /\ \E imageRef \in imageRefs, resourceRef \in resourceRefs :
          fst' = [fst EXCEPT ![p] =
                    [FIdle EXCEPT
                       !.in = [imageRef |-> imageRef, resourceRef |-> resourceRef],
                       !.f = NewManifestFetcher(imageRef, resourceRef)]]
    /\ pc' = [pc EXCEPT ![p] = "fetcher"]
    /\ vst' = [vst EXCEPT ![p] = VIdle]
    /\ UNCHANGED cache

\* ------------------------------------------------------ ImageManifestFetcher

\* Where fetchManifestInSingleImage starts
SingleImageEntry(f) == IF f.cacheEnabled THEN "fget" ELSE "fpull"

\* ImageManifestFetcher.Fetch, lines 290-307: the reference and its list.
ImageFetchBegin(p, annotationMaps) ==
    LET st == fst[p] IN
    /\ pc[p] = "fetcher"
    /\ st.f.kind = "image"
    /\ \E annotations \in annotationMaps :
          LET imageRefString ==
                  IF st.f.imageRefString = <<>>
                        /\ ImageRefAnnotationKey \in DOMAIN annotations
                  THEN annotations[ImageRefAnnotationKey]
                  ELSE st.f.imageRefString
              begun == [st EXCEPT !.annotations = annotations, !.mode = "fetch"]
          IN  IF imageRefString = <<>>
              THEN /\ fst' = [fst EXCEPT ![p] =
                               [begun EXCEPT !.ret = FetchReturned(<<>>, <<>>,
                                                <<"no image reference is found">>)]]
                   /\ pc' = [pc EXCEPT ![p] = "fdone"]
              ELSE /\ fst' = [fst EXCEPT ![p] =
                               [begun EXCEPT
                                  !.refs = SplitCommaSeparatedString(imageRefString),
                                  !.i = 1]]
                   /\ pc' = [pc EXCEPT ![p] = SingleImageEntry(st.f)]
    /\ UNCHANGED <<cache, vst>>

\* ImageManifestFetcher.FetchAll, lines 349-352
FetchAllBegin(p) ==
    LET st == fst[p] IN
    /\ pc[p] = "fetcher"
    /\ st.f.kind = "image"
    /\ fst' = [fst EXCEPT ![p] =
                [st EXCEPT !.mode = "all",
                           !.refs = SplitCommaSeparatedString(st.f.imageRefString),
                           !.i = 1]]
    /\ pc' = [pc EXCEPT ![p] = SingleImageEntry(st.f)]
    /\ UNCHANGED <<cache, vst>>

\* A variant of FetchAll that puts each image's documents in front
AfterSingleImage_Prepends(st) ==
    LET imageRef == st.refs[st.i]
        wrapped == Wrap(st.err, "failed to get YAMLs in the image")
        m == FindManifestYAML(st.bytes)
        yamls == SplitConcatYAMLs(st.bytes) \o st.yamls
    IN  IF st.err # <<>>
        THEN [pc |-> "fdone",
              st |-> [st EXCEPT !.ret = FetchReturned(<<>>, <<>>, wrapped)]]
        ELSE IF st.mode = "fetch"
        THEN LET tried == [st EXCEPT !.collab = Append(st.collab, "match")] IN
             IF m.found
             THEN [pc |-> "fdone",
                   st |-> [tried EXCEPT !.ret = FetchReturned(m.manifests, imageRef, <<>>)]]
             ELSE IF st.i < Len(st.refs)
             THEN [pc |-> SingleImageEntry(st.f), st |-> [tried EXCEPT !.i = st.i + 1]]
             ELSE [pc |-> "fdone",
                   st |-> [tried EXCEPT !.ret = FetchReturned(<<>>, <<>>,
                              <<"failed to find a YAML manifest in the image">>)]]
        ELSE IF st.i < Len(st.refs)
        THEN [pc |-> SingleImageEntry(st.f),
              st |-> [st EXCEPT !.yamls = yamls, !.i = st.i + 1]]
        ELSE [pc |-> "fdone",
              st |-> [st EXCEPT !.yamls = yamls,
                                !.ret = FetchReturned(yamls, <<>>, <<>>)]]

\* After fetchManifestInSingleImage returned (st.bytes, st.err) for refs[i]:
\* lines 342-345, then the caller's loop body (310-318 in Fetch, 355-361 in
\* FetchAll).  The caller's next position and locals.
AfterSingleImage(st) ==
    LET imageRef == st.refs[st.i]
        wrapped == Wrap(st.err, "failed to get YAMLs in the image")
        m == FindManifestYAML(st.bytes)
        yamls == st.yamls \o SplitConcatYAMLs(st.bytes)
    IN  IF st.err # <<>>
        THEN [pc |-> "fdone",
              st |-> [st EXCEPT !.ret = FetchReturned(<<>>, <<>>, wrapped)]]
        ELSE IF st.mode = "fetch"
        THEN LET tried == [st EXCEPT !.collab = Append(st.collab, "match")] IN
             IF m.found
             THEN [pc |-> "fdone",
                   st |-> [tried EXCEPT !.ret = FetchReturned(m.manifests, imageRef, <<>>)]]
             ELSE IF st.i < Len(st.refs)
             THEN [pc |-> SingleImageEntry(st.f), st |-> [tried EXCEPT !.i = st.i + 1]]
             ELSE [pc |-> "fdone",
                   st |-> [tried EXCEPT !.ret = FetchReturned(<<>>, <<>>,
                              <<"failed to find a YAML manifest in the image">>)]]
        ELSE IF st.i < Len(st.refs)
        THEN [pc |-> SingleImageEntry(st.f),
              st |-> [st EXCEPT !.yamls = yamls, !.i = st.i + 1]]
        ELSE [pc |-> "fdone",
              st |-> [st EXCEPT !.yamls = yamls,
                                !.ret = FetchReturned(yamls, <<>>, <<>>)]]

\* fetchManifestInSingleImage, lines 324-329: the cache is asked first.
FetchCacheGet(p) ==
    LET st == fst[p]
        imageRef == st.refs[st.i]
        r == getManifestFromCache(imageRef)
        asked == [st EXCEPT !.bytes = r.bytes, !.err = r.err,
                            !.reads = Append(st.reads, [ref |-> imageRef, r |-> r])]
    IN  /\ pc[p] = "fget"
        /\ IF r.found
           THEN /\ fst' = [fst EXCEPT ![p] = AfterSingleImage(asked).st]
                /\ pc' = [pc EXCEPT ![p] = AfterSingleImage(asked).pc]
           ELSE /\ fst' = [fst EXCEPT ![p] = asked]
                /\ pc' = [pc EXCEPT ![p] = "fpull"]
        /\ UNCHANGED <<cache, vst>>

\* A variant that writes the result of a failed pull to the cache as well
FetchPull_CachesFailures(p) ==
    LET st == fst[p]
        imageRef == st.refs[st.i]
    IN  /\ pc[p] = "fpull"
        /\ \E o \in PullOutcomes(imageRef) :
              LET pulled == [st EXCEPT !.bytes = o.bytes, !.err = o.err,
                                !.pulls = Append(st.pulls,
                                            [ref |-> imageRef, bytes |-> o.bytes,
                                             err |-> o.err])]
              IN  IF st.f.cacheEnabled
                  THEN /\ fst' = [fst EXCEPT ![p] = pulled]
                       /\ pc' = [pc EXCEPT ![p] = "fset"]
                  ELSE /\ fst' = [fst EXCEPT ![p] = AfterSingleImage(pulled).st]
                       /\ pc' = [pc EXCEPT ![p] = AfterSingleImage(pulled).pc]
        /\ UNCHANGED <<cache, vst>>

\* fetchManifestInSingleImage, lines 332-333 and 340: the image is pulled.
FetchPull(p) ==
    LET st == fst[p]
        imageRef == st.refs[st.i]
    IN  /\ pc[p] = "fpull"
        /\ \E o \in PullOutcomes(imageRef) :
              LET pulled == [st EXCEPT !.bytes = o.bytes, !.err = o.err,
                                !.pulls = Append(st.pulls,
                                            [ref |-> imageRef, bytes |-> o.bytes,
                                             err |-> o.err])]
              IN  IF st.f.cacheEnabled /\ o.err = <<>>
                  THEN /\ fst' = [fst EXCEPT ![p] = pulled]
                       /\ pc' = [pc EXCEPT ![p] = "fset"]
                  ELSE /\ fst' = [fst EXCEPT ![p] = AfterSingleImage(pulled).st]
                       /\ pc' = [pc EXCEPT ![p] = AfterSingleImage(pulled).pc]
        /\ UNCHANGED <<cache, vst>>

\* fetchManifestInSingleImage, line 335: a successful pull is cached.
FetchSet(p) ==
    LET st == fst[p]
        imageRef == st.refs[st.i]
    IN  /\ pc[p] = "fset"
        /\ \E ok \in BOOLEAN :
              LET written == [st EXCEPT !.sets = Append(st.sets,
                                            [ref |-> imageRef, ok |-> ok])]
              IN  /\ cache' = setManifestToCache(imageRef, st.bytes, st.err, ok)
                  /\ fst' = [fst EXCEPT ![p] = AfterSingleImage(written).st]
                  /\ pc' = [pc EXCEPT ![p] = AfterSingleImage(written).pc]
        /\ UNCHANGED vst

\* ------------------------------------------------------- BlobManifestFetcher

\* A variant that reports a missing message annotation as not found
FetchFromAnnotation_AbsentFails(annotations) ==
    IF MessageAnnotationKey \notin DOMAIN annotations
    THEN [ret |-> FetchReturned(<<>>, <<>>,
                     <<"failed to find a YAML manifest in the gzipped message">>),
          collab |-> <<>>]
    ELSE LET decoded == Base64Decode(annotations[MessageAnnotationKey])
             got == GetYAMLsInArtifact(GzipDecompress(decoded.bytes))
             m == FindManifestYAML(ConcatenateYAMLs(got.yamls))
         IN  IF decoded.err # <<>> \/ got.err # <<>> \/ ~m.found
             THEN [ret |-> FetchReturned(<<>>, <<>>,
                              <<"failed to find a YAML manifest in the gzipped message">>),
                   collab |-> <<"decode", "gunzip", "untar", "match">>]
             ELSE [ret |-> FetchReturned(m.manifests, SigRefEmbeddedInAnnotation, <<>>),
                   collab |-> <<"decode", "gunzip", "untar", "match">>]

\* BlobManifestFetcher.Fetch, lines 423-453: the message annotation path.
\* The result and the collaborators called, in order.
FetchFromAnnotation(annotations) ==
    IF MessageAnnotationKey \notin DOMAIN annotations
    THEN [ret |-> FetchReturned(<<>>, <<>>, <<>>), collab |-> <<>>]
    ELSE LET decoded == Base64Decode(annotations[MessageAnnotationKey])
             got == GetYAMLsInArtifact(GzipDecompress(decoded.bytes))
             m == FindManifestYAML(ConcatenateYAMLs(got.yamls))
         IN  IF decoded.err # <<>>
             THEN [ret |-> FetchReturned(<<>>, <<>>,
                              Wrap(decoded.err,
                                   "failed to decode base64 message in the annotation")),
                   collab |-> <<"decode">>]
             ELSE IF got.err # <<>>
             THEN [ret |-> FetchReturned(<<>>, <<>>,
                              Wrap(got.err, "failed to read YAMLs in the gzipped message")),
                   collab |-> <<"decode", "gunzip", "untar">>]
             ELSE IF ~m.found
             THEN [ret |-> FetchReturned(<<>>, <<>>,
                              <<"failed to find a YAML manifest in the gzipped message">>),
                   collab |-> <<"decode", "gunzip", "untar", "match">>]
             ELSE [ret |-> FetchReturned(m.manifests, SigRefEmbeddedInAnnotation, <<>>),
                   collab |-> <<"decode", "gunzip", "untar", "match">>]

\* BlobManifestFetcher.Fetch, lines 418-454, and the head of
\* fetchManifestFromResource (457-467).
BlobFetch(p, annotationMaps) ==
    LET st == fst[p] IN
    /\ pc[p] = "fetcher"
    /\ st.f.kind = "blob"
    /\ \E annotations \in annotationMaps :
          LET begun == [st EXCEPT !.annotations = annotations, !.mode = "fetch"]
              r == FetchFromAnnotation(annotations)
          IN  IF st.f.resourceRefString # <<>>
              THEN /\ fst' = [fst EXCEPT ![p] =
                               [begun EXCEPT
                                  !.refs = SplitCommaSeparatedString(
                                               st.f.resourceRefString),
                                  !.i = 1]]
                   /\ pc' = [pc EXCEPT ![p] = "fcm"]
              ELSE /\ fst' = [fst EXCEPT ![p] =
                               [begun EXCEPT !.ret = r.ret, !.collab = r.collab]]
                   /\ pc' = [pc EXCEPT ![p] = "fdone"]
    /\ UNCHANGED <<cache, vst>>

\* fetchManifestFromResource, line 478
NotFoundInConfigMaps ==
    <<"failed to find a YAML manifest in the specified signature configmaps">>

\* fetchManifestFromResource, lines 468-478: one turn of the loop.
BlobFetchResource(p) ==
    LET st == fst[p]
        resourceRef == st.refs[st.i]
    IN  /\ pc[p] = "fcm"
        /\ \E cm \in ConfigMapOutcomes(resourceRef) :
              LET r == fetchManifestInSingleConfigMap(resourceRef, cm)
                  m == FindManifestYAML(r.bytes)
                  got == [st EXCEPT !.bytes = r.bytes, !.err = r.err,
                             !.pulls = Append(st.pulls,
                                         [ref |-> resourceRef, bytes |-> r.bytes,
                                          err |-> r.err]),
                             !.collab = IF r.err = <<>>
                                        THEN Append(st.collab, "match")
                                        ELSE st.collab]
              IN  IF r.err # <<>>
                  THEN /\ fst' = [fst EXCEPT ![p] =
                                   [got EXCEPT !.ret = FetchReturned(<<>>, <<>>, r.err)]]
                       /\ pc' = [pc EXCEPT ![p] = "fdone"]
                  ELSE IF m.found
                  THEN /\ fst' = [fst EXCEPT ![p] =
                                   [got EXCEPT !.ret = FetchReturned(m.manifests,
                                                          resourceRef, <<>>)]]
                       /\ pc' = [pc EXCEPT ![p] = "fdone"]
                  ELSE IF st.i < Len(st.refs)
                  THEN /\ fst' = [fst EXCEPT ![p] = [got EXCEPT !.i = st.i + 1]]
                       /\ pc' = pc
                  ELSE /\ fst' = [fst EXCEPT ![p] =
                                   [got EXCEPT !.ret = FetchReturned(<<>>, <<>>,
                                                          NotFoundInConfigMaps)]]
                       /\ pc' = [pc EXCEPT ![p] = "fdone"]
        /\ UNCHANGED <<cache, vst>>

\* ------------------------------------------------------------ specifications

Init ==
    /\ cache = <<>>
    /\ pc = [p \in Procs |-> "idle"]
    /\ vst = [p \in Procs |-> VIdle]
    /\ fst = [p \in Procs |-> FIdle]

\* The caller of the sequential specifications
Caller == "p1"

\* Verify() of the image-path verifiers against the shared cache
VerifySteps(p) ==
    \/ VerifyBegin(p)
    \/ CacheLookup(p)
    \/ LiveVerify(p)
    \/ LiveSet(p)

Next ==
    \/ NewVerifier(Caller, ImageAnnotationMaps, {<<>>} \cup ImageRefs, PubkeyPathArgs)
    \/ VerifySteps(Caller)

Spec == Init /\ [][Next]_vars

\* The factories alone, over every combination of their arguments
NextFactory ==
    \/ NewVerifier(Caller, AnnotationMaps, SigRefArgs, PubkeyPathArgs)
    \/ NewFetcher(Caller, ImageRefArgs, ResourceRefArgs)

SpecFactory == Init /\ [][NextFactory]_vars

\* Fetch() and FetchAll() of the manifest fetchers
ImageFetchSteps(p) ==
    \/ ImageFetchBegin(p, FetchAnnotationMaps)
    \/ FetchAllBegin(p)
    \/ FetchCacheGet(p)
    \/ FetchPull(p)
    \/ FetchSet(p)

BlobFetchSteps(p) ==
    \/ BlobFetch(p, FetchAnnotationMaps)
    \/ BlobFetchResource(p)

NextFetch ==
    \/ NewFetcher(Caller, ImageRefArgs, ResourceRefArgs)
    \/ ImageFetchSteps(Caller)
    \/ BlobFetchSteps(Caller)

SpecFetch == Init /\ [][NextFetch]_vars

\* The cache is shared with other writers: k8smnfutil.SetCache(key, values...)
\* stores whatever tuple it is given.  Here another writer leaves a tuple of
\* another arity under a key this code reads.
ForeignTuples == {<<"stale", "stale", "stale">>}

ForeignKeys ==
    {VerifyImageCacheKey(<<"a">>, <<"c">>), FetchManifestCacheKey(<<"a">>)}

ForeignSet ==
    /\ \E key \in ForeignKeys, tuple \in ForeignTuples :
          cache' = SetCache(key, tuple)
    /\ UNCHANGED <<pc, vst, fst>>

NextForeign ==
    \/ ForeignSet
    \/ NewVerifier(Caller, {MkAnnotations({}, {}, {})}, {<<"a">>}, PubkeyPathArgs)
    \/ VerifySteps(Caller)
    \/ NewFetcher(Caller, {<<"a">>, <<"a", ",", "a", "/", "b">>}, {<<>>})
    \/ ImageFetchSteps(Caller)

SpecForeign == Init /\ [][NextForeign]_vars

\* The values setResultToCache may be handed: every combination of verified,
\* signer name, signing time (nil or not) and error (nil or not)
ResultValues ==
    [verified : BOOLEAN, signerName : {<<>>, <<"signer">>},
     signedTimestamp : {{}, {7}}, err : {<<>>, <<"reason">>}]

\* setResultToCache(imageRef, pubkey, verified, signerName, signedTimestamp, err)
\* called on its own; the caller remembers the call.
SetResultCall(p) ==
    /\ pc[p] \in {"idle", "rset", "rget"}
    /\ \E pubkey \in PubKeys, out \in ResultValues, ok \in BOOLEAN :
          /\ cache' = setResultToCache(<<"a">>, pubkey, out, ok)
          /\ vst' = [vst EXCEPT ![p] =
                       [VIdle EXCEPT !.out = out,
                                     !.sets = <<[pubkey |-> pubkey, ok |-> ok]>>]]
    /\ pc' = [pc EXCEPT ![p] = "rset"]
    /\ UNCHANGED fst

\* getResultFromCache(imageRef, pubkey) called on its own
GetResultCall(p) ==
    /\ pc[p] \in {"rset", "rget"}
    /\ \E pubkey \in PubKeys :
          vst' = [vst EXCEPT ![p].reads =
                     <<[pubkey |-> pubkey,
                        r |-> getResultFromCache(<<"a">>, pubkey)]>>]
    /\ pc' = [pc EXCEPT ![p] = "rget"]
    /\ UNCHANGED <<cache, fst>>

NextRoundTrip ==
    \/ SetResultCall(Caller)
    \/ GetResultCall(Caller)

\* The two cache accessors of the image verifier, called directly
SpecRoundTrip == Init /\ [][NextRoundTrip]_vars

\* Two callers run their calls at the same time against the shared cache.
\* Each builds an image verifier of image "a" over one key or two, or an
\* image fetcher of image "a", and the steps of their calls interleave.
ConcurrentKeyLists == {{<<"c">>}, {<<"c", ",", "b", "/", "c">>}}

ConcurrentSteps(p) ==
    \/ NewVerifier(p, {MkAnnotations({}, {}, {})}, {<<"a">>}, ConcurrentKeyLists)
    \/ VerifySteps(p)
    \/ NewFetcher(p, {<<"a">>}, {<<>>})
    \/ ImageFetchBegin(p, {MkAnnotations({}, {}, {})})
    \/ FetchAllBegin(p)
    \/ FetchCacheGet(p)
    \/ FetchPull(p)
    \/ FetchSet(p)

NextConcurrent ==
    \/ ConcurrentSteps("p1")
    \/ ConcurrentSteps("p2")

SpecConcurrent == Init /\ [][NextConcurrent]_vars

\* The race for one uncached entry: two callers, each verifying image "a"
\* with key "c" or fetching image "a"
RaceSteps(p) ==
    \/ NewVerifier(p, {MkAnnotations({}, {}, {})}, {<<"a">>}, {{<<"c">>}})
    \/ VerifySteps(p)
    \/ NewFetcher(p, {<<"a">>}, {<<>>})
    \/ ImageFetchBegin(p, {MkAnnotations({}, {}, {})})
    \/ FetchCacheGet(p)
    \/ FetchPull(p)
    \/ FetchSet(p)

NextRace ==
    \/ RaceSteps("p1")
    \/ RaceSteps("p2")

\* A call that was started runs to its end: the dispatcher, the registry and
\* the cache answer, and every caller is scheduled.
RaceFairness ==
    \A p \in Procs :
        /\ WF_vars(VerifySteps(p))
        /\ WF_vars(FetchCacheGet(p) \/ FetchPull(p) \/ FetchSet(p))

SpecRace == Init /\ [][NextRace]_vars /\ RaceFairness

\* Verify() of the blob-path verifiers: no reference or a resource reference,
\* every shape of source and of key configuration
NextBlob ==
    \/ NewVerifier(Caller, BlobFieldMaps,
                   {<<>>, <<"k8s://", "ConfigMap", "/", "ns1", "/", "cm1">>},
                   BlobPubkeyPathArgs)
    \/ BlobVerify(Caller)

SpecBlob == Init /\ [][NextBlob]_vars

\* ------------------------------------------------------------------ properties

\* The last element of a non-empty sequence
Last(seq) == seq[Len(seq)]

\* A caller inside, or just out of, a Verify() call over a key list
InVerify(p) ==
    pc[p] \in {"vcache", "vlive", "vset", "vdone"} /\ vst[p].pubkeys # <<>>

\* C1: Verify() returns as soon as one key verifies.  The dispatcher is
\* invoked for the keys in list order, no invocation follows a successful one,
\* and the returned (verified, signer, signedAt) are those of the first key
\* that succeeded: of the last invocation when the dispatcher ran, of the
\* first cached success otherwise.
C1_ReturnsOnFirstSuccess ==
    \A p \in Procs :
        LET st == vst[p]
            calls == st.calls
            reads == st.reads
        IN  InVerify(p) =>
              /\ Len(calls) <= Len(st.pubkeys)
              /\ \A n \in 1..Len(calls) : calls[n].pubkey = st.pubkeys[n]
              /\ \A n \in 1..(Len(calls) - 1) : ~calls[n].out.verified
              /\ pc[p] = "vlive" => \A n \in 1..Len(calls) : ~calls[n].out.verified
              /\ pc[p] = "vdone" /\ calls # <<>> =>
                    /\ st.ret.verified = Last(calls).out.verified
                    /\ st.ret.verified =>
                          /\ st.ret.signerName = Last(calls).out.signerName
                          /\ st.ret.signedTimestamp = Last(calls).out.signedTimestamp
              /\ pc[p] = "vdone" /\ calls = <<>> /\ st.ret.verified =>
                    /\ \A n \in 1..Len(reads) : reads[n].pubkey = st.pubkeys[n]
                    /\ \A n \in 1..(Len(reads) - 1) : ~reads[n].r.verified
                    /\ Last(reads).r.found /\ Last(reads).r.verified
                    /\ st.ret.signerName = Last(reads).r.signerName
                    /\ st.ret.signedTimestamp = Last(reads).r.signedTimestamp

\* C1's case: keys "k1,k2", k1 fails and k2 verifies; k2's result is returned.
C1_Witness ==
    \E p \in Procs :
        /\ pc[p] = "vdone"
        /\ Len(vst[p].pubkeys) = 2
        /\ Len(vst[p].calls) = 2
        /\ ~vst[p].calls[1].out.verified
        /\ vst[p].ret.verified
        /\ vst[p].ret.signerName = vst[p].calls[2].out.signerName
        /\ vst[p].ret.err = <<>>

\* C2: when every key failed, Verify() returns verified = false and an error
\* whose text is "signature verification failed: " followed by the failure
\* reasons, one per key, in key order, joined with "; "; the reasons are those
\* of the dispatcher when it ran, and those of the cached entries otherwise.
C2_AggregateOfReasons ==
    \A p \in Procs :
        LET st == vst[p]
            live == st.calls # <<>>
            tried == IF live THEN [n \in 1..Len(st.calls) |-> st.calls[n].pubkey]
                     ELSE [n \in 1..Len(st.reads) |-> st.reads[n].pubkey]
            reasons == IF live THEN [n \in 1..Len(st.calls) |-> st.calls[n].out.err]
                       ELSE [n \in 1..Len(st.reads) |-> st.reads[n].r.err]
        IN  pc[p] = "vdone" /\ st.pubkeys # <<>> /\ ~st.ret.verified =>
              /\ tried = st.pubkeys
              /\ \A n \in 1..Len(reasons) : reasons[n] # <<>>
              /\ ~live => \A n \in 1..Len(st.reads) :
                              st.reads[n].r.found /\ ~st.reads[n].r.verified
              /\ st.ret.signerName = <<>> /\ st.ret.signedTimestamp = {}
              /\ st.ret.err = <<"signature verification failed: ">>
                                \o Join(reasons, <<"; ">>)

\* C2's case: two keys, both failures served from the cache.
C2_Witness ==
    \E p \in Procs :
        /\ pc[p] = "vdone"
        /\ Len(vst[p].pubkeys) = 2
        /\ vst[p].pubkeys[1] # vst[p].pubkeys[2]
        /\ vst[p].calls = <<>>
        /\ ~vst[p].ret.verified
        /\ Len(vst[p].ret.err) > 3

\* An error that reports a stored tuple of the wrong arity
IsCacheInconsistent(err) ==
    \E n \in 1..Len(err) : err[n] \in {CacheInconsistentVerify[1], CacheInconsistentFetch[1]}

\* C3: a call that read a cached tuple of the wrong arity fails with a
\* CacheInconsistent error, and neither the dispatcher nor an image pull
\* follows from that read.
C3_WrongArityIsAnError ==
    \A p \in Procs :
        /\ pc[p] = "vdone"
              /\ (\E n \in 1..Len(vst[p].reads) : vst[p].reads[n].r.err # <<>>
                                                  /\ ~vst[p].reads[n].r.found)
              => /\ IsCacheInconsistent(vst[p].ret.err)
                 /\ vst[p].calls = <<>>
        /\ pc[p] = "fdone"
              /\ (\E n \in 1..Len(fst[p].reads) : fst[p].reads[n].r.err # <<>>
                                                  /\ ~fst[p].reads[n].r.found)
              => /\ IsCacheInconsistent(fst[p].ret.err)
                 /\ fst[p].pulls = <<>>

\* A caller that has just built a verifier, its arguments still at hand
Built(p) == pc[p] = "verifier"

\* C4: an explicit in-cluster resource reference yields a blob-path verifier
\* bound to that reference, whatever annotations the object carries.
C4_ResourceRefSelectsBlob ==
    \A p \in Procs :
        Built(p) /\ HasPrefix(vst[p].in.sigRef, InClusterObjectPrefix) =>
            /\ vst[p].v.kind = "blob"
            /\ vst[p].v.resourceRef = vst[p].in.sigRef
            /\ vst[p].v.imageRef = <<>>

\* The object carries the image-reference annotation and no other
OnlyImageRefAnnotation(annotations) ==
    DOMAIN annotations = {ImageRefAnnotationKey}

\* An explicit reference that is an image reference
IsExplicitImageRef(sigRef) ==
    /\ sigRef # <<>>
    /\ sigRef # SigRefEmbeddedInAnnotation
    /\ ~HasPrefix(sigRef, InClusterObjectPrefix)

\* C5 as stated: with no explicit reference, an object whose only annotation
\* is the image reference yields an image-path verifier bound to exactly the
\* annotation's value; an explicit image reference wins over the annotation.
C5_AnnotationSelectsImage ==
    \A p \in Procs :
        Built(p) =>
            /\ vst[p].in.sigRef = <<>> /\ OnlyImageRefAnnotation(vst[p].in.annotations) =>
                  /\ vst[p].v.kind = "image"
                  /\ vst[p].v.imageRef = vst[p].in.annotations[ImageRefAnnotationKey]
            /\ IsExplicitImageRef(vst[p].in.sigRef) =>
                  /\ vst[p].v.kind = "image"
                  /\ vst[p].v.imageRef = vst[p].in.sigRef

\* C5 amended: the annotation selects the image path when its value is
\* neither empty nor the embedded sentinel; with such a value the blob path
\* with an empty resource reference is selected.  An explicit image reference
\* wins over the annotation.
C5_NonEmptyAnnotationSelectsImage ==
    \A p \in Procs :
        Built(p) =>
            /\ vst[p].in.sigRef = <<>> /\ OnlyImageRefAnnotation(vst[p].in.annotations) =>
                  LET value == vst[p].in.annotations[ImageRefAnnotationKey] IN
                  IF value # <<>> /\ value # SigRefEmbeddedInAnnotation
                  THEN /\ vst[p].v.kind = "image"
                       /\ vst[p].v.imageRef = value
                  ELSE /\ vst[p].v.kind = "blob"
                       /\ vst[p].v.resourceRef = <<>>
            /\ IsExplicitImageRef(vst[p].in.sigRef) =>
                  /\ vst[p].v.kind = "image"
                  /\ vst[p].v.imageRef = vst[p].in.sigRef

\* C5's case: no explicit reference, the annotation alone names image "a".
C5_Witness ==
    \E p \in Procs :
        /\ Built(p)
        /\ vst[p].in.sigRef = <<>>
        /\ OnlyImageRefAnnotation(vst[p].in.annotations)
        /\ vst[p].in.annotations[ImageRefAnnotationKey] = <<"a">>
        /\ vst[p].v.kind = "image"
        /\ vst[p].v.imageRef = <<"a">>

\* C6: an explicit reference equal to the embedded sentinel yields a blob-path
\* verifier with an empty resource reference that reads the object's own
\* annotations, also when the object carries an image-reference annotation.
C6_SentinelSelectsBlob ==
    \A p \in Procs :
        Built(p) /\ vst[p].in.sigRef = SigRefEmbeddedInAnnotation =>
            /\ vst[p].v.kind = "blob"
            /\ vst[p].v.resourceRef = <<>>
            /\ vst[p].v.imageRef = <<>>
            /\ vst[p].v.annotations = vst[p].in.annotations

\* C6's case: the sentinel given for an object that names an image.
C6_Witness ==
    \E p \in Procs :
        /\ Built(p)
        /\ vst[p].in.sigRef = SigRefEmbeddedInAnnotation
        /\ ImageRefAnnotationKey \in DOMAIN vst[p].in.annotations
        /\ vst[p].in.annotations[ImageRefAnnotationKey] = <<"a">>
        /\ vst[p].v.kind = "blob"

\* A caller inside, or just out of, a Fetch() call
InFetch(p) ==
    pc[p] \in {"fget", "fpull", "fset", "fcm", "fdone"} /\ fst[p].mode = "fetch"

\* The source Fetch() reads: the image list, the resource list, or the
\* object's message annotation
FetchPath(p) ==
    IF fst[p].f.kind = "image" THEN [path |-> "image", refs |-> fst[p].refs]
    ELSE IF fst[p].f.resourceRefString # <<>>
    THEN [path |-> "resource", refs |-> fst[p].refs]
    ELSE [path |-> "annotation", refs |-> <<>>]

\* C7: fetcher selection.  An explicit image reference selects the image
\* path; otherwise an explicit resource reference selects the blob path bound
\* to it; otherwise an image-reference annotation of the target selects the
\* image path with the annotation's value; otherwise the annotation path.
C7_FetcherPrecedence ==
    \A p \in Procs :
        LET in == fst[p].in
            annotations == fst[p].annotations
        IN  InFetch(p) =>
              FetchPath(p) =
                IF in.imageRef # <<>>
                THEN [path |-> "image", refs |-> SplitCommaSeparatedString(in.imageRef)]
                ELSE IF in.resourceRef # <<>>
                THEN [path |-> "resource",
                      refs |-> SplitCommaSeparatedString(in.resourceRef)]
                ELSE IF ImageRefAnnotationKey \in DOMAIN annotations
                THEN [path |-> "image",
                      refs |-> SplitCommaSeparatedString(annotations[ImageRefAnnotationKey])]
                ELSE [path |-> "annotation", refs |-> <<>>]

\* The references Fetch() obtained a manifest text for, or failed to: one
\* cache hit or one pull each
Attempts(p) ==
    Cardinality({n \in 1..Len(fst[p].reads) : fst[p].reads[n].r.found})
        + Len(fst[p].pulls)

\* C8: ImageManifestFetcher.Fetch falls back across the image list.  It fails
\* only after every image of the list was tried and none matched: an image
\* that cannot be fetched does not keep the later images from being tried.
C8_FallbackAcrossImages ==
    \A p \in Procs :
        pc[p] = "fdone" /\ fst[p].mode = "fetch" /\ fst[p].f.kind = "image"
            /\ fst[p].ret.err # <<>> =>
                Attempts(p) = Len(fst[p].refs)

\* C9: when every reference of a fallback loop (over images, over resource
\* references) was attempted and failed, the error is the failure reasons of
\* the attempts, one per attempt in list order, joined with "; ".
C9_AggregateOfAttempts ==
    \A p \in Procs :
        pc[p] = "fdone" /\ fst[p].mode = "fetch" /\ fst[p].refs # <<>>
            /\ fst[p].ret.err # <<>> /\ Attempts(p) = Len(fst[p].refs) =>
                LET parts == SplitOn(fst[p].ret.err, "; ") IN
                /\ Len(parts) = Attempts(p)
                /\ \A n \in 1..Len(parts) : parts[n] # <<>>

\* C10: with no resource reference, Fetch() on an object without a message
\* annotation returns (nil, "", nil) and calls no collaborator; with a message
\* annotation it returns an error or the matched manifests under the embedded
\* sentinel, so the two cases never return the same thing.
C10_AbsenceIsNotAnError ==
    \A p \in Procs :
        LET st == fst[p] IN
        pc[p] = "fdone" /\ st.mode = "fetch" /\ st.f.kind = "blob"
            /\ st.f.resourceRefString = <<>> =>
                IF MessageAnnotationKey \notin DOMAIN st.annotations
                THEN /\ st.ret = FetchReturned(<<>>, <<>>, <<>>)
                     /\ st.collab = <<>>
                     /\ st.pulls = <<>> /\ st.reads = <<>> /\ st.sets = <<>>
                ELSE \/ st.ret.err # <<>> /\ st.ret.manifests = <<>>
                     \/ /\ st.ret.err = <<>>
                        /\ st.ret.manifests # <<>>
                        /\ st.ret.ref = SigRefEmbeddedInAnnotation
                        /\ \A n \in 1..Len(st.ret.manifests) :
                               st.ret.manifests[n] \in MatchingDocs

\* C10's case: no resource reference, no message annotation, no error.
C10_Witness ==
    \E p \in Procs :
        /\ pc[p] = "fdone"
        /\ fst[p].f.kind = "blob"
        /\ fst[p].f.resourceRefString = <<>>
        /\ MessageAnnotationKey \notin DOMAIN fst[p].annotations
        /\ fst[p].ret = FetchReturned(<<>>, <<>>, <<>>)

\* The manifest text obtained for the n-th reference of a call: the cached
\* text on a hit, the pulled text otherwise
Obtained(p, n) ==
    LET reads == fst[p].reads
        misses == Cardinality({m \in 1..n : ~reads[m].r.found})
    IN  IF reads[n].r.found
        THEN [bytes |-> reads[n].r.bytes, err |-> reads[n].r.err]
        ELSE [bytes |-> fst[p].pulls[misses].bytes, err |-> fst[p].pulls[misses].err]

\* The document lists an image can be extracted to, in extraction order
ExtractedDocLists(imageRef) ==
    { << <<DocsOf(imageRef).other>> >>,
      << <<DocsOf(imageRef).other>>, <<DocsOf(imageRef).obj>> >> }

RECURSIVE Flatten(_)
\* The concatenation of a sequence of sequences
Flatten(seqs) ==
    IF seqs = <<>> THEN <<>> ELSE Head(seqs) \o Flatten(Tail(seqs))

\* A FetchAll() call that returned without error
FetchAllSucceeded(p) ==
    pc[p] = "fdone" /\ fst[p].mode = "all" /\ fst[p].ret.err = <<>>

\* C11: on success FetchAll() returns, in the order of the image list, each
\* image's documents in the order they were extracted from it, whether the
\* image's text was read from the cache or pulled; it matches nothing against
\* a target and resolves no reference.
C11_FetchAllKeepsOrder ==
    \A p \in Procs :
        FetchAllSucceeded(p) =>
            LET st == fst[p] IN
            /\ Len(st.reads) = Len(st.refs)
            /\ \E docs \in [1..Len(st.refs) ->
                              UNION {ExtractedDocLists(r) : r \in ImageRefs}] :
                  /\ \A n \in 1..Len(st.refs) :
                        /\ st.reads[n].ref = st.refs[n]
                        /\ docs[n] \in ExtractedDocLists(st.refs[n])
                        /\ Join(docs[n], <<"---">>) = Obtained(p, n).bytes
                  /\ st.ret.manifests = Flatten(docs)
            /\ st.collab = <<>>
            /\ st.ret.ref = <<>>

\* C11's case: two different images, the first read from the cache and the
\* second pulled, each holding two documents.
C11_Witness ==
    \E p \in Procs :
        /\ FetchAllSucceeded(p)
        /\ fst[p].refs = << <<"a", "/", "b">>, <<"a">> >>
        /\ fst[p].reads[1].r.found
        /\ ~fst[p].reads[2].r.found
        /\ Len(fst[p].ret.manifests) = 4

\* A read of the pair the caller's latest write went to, that write having
\* succeeded
ReadBack(p) ==
    /\ pc[p] = "rget"
    /\ vst[p].sets[1].ok
    /\ vst[p].reads[1].pubkey = vst[p].sets[1].pubkey

\* C12: after setResultToCache(imageRef, key, verified, signer, ts, err)
\* succeeded and no other write to the key intervened,
\* getResultFromCache(imageRef, key) reports found with the same four values,
\* whatever they are (nil signing time, nil or non-nil error).
C12_VerifyCacheRoundTrip ==
    \A p \in Procs :
        ReadBack(p) =>
            LET r == vst[p].reads[1].r
                out == vst[p].out
            IN  /\ r.found
                /\ r.verified = out.verified
                /\ r.signerName = out.signerName
                /\ r.signedTimestamp = out.signedTimestamp
                /\ r.err = out.err

\* C12's case: a success stored with no signing time and with an error, read
\* back.
C12_Witness ==
    \E p \in Procs :
        /\ ReadBack(p)
        /\ vst[p].out.verified
        /\ vst[p].out.signedTimestamp = {}
        /\ vst[p].out.err # <<>>
        /\ vst[p].reads[1].r.found

\* A dispatcher that is a fixed function of (imageRef, key): it verifies the
\* pairs whose key is in `good`, and fails the others
FixedVerifyImage(good, imageRef, pubkey) ==
    CHOOSE o \in VerifyImageOutcomes(imageRef, pubkey) :
        o.verified <=> (pubkey \in good)

RECURSIVE VerifyUncached(_, _, _)
\* Verify() with onMemoryCacheEnabled = false (lines 121-138) over that
\* dispatcher: the outcome of the first key that verifies, or a failure
VerifyUncached(good, imageRef, pubkeys) ==
    IF pubkeys = <<>> THEN NoOutcome
    ELSE LET o == FixedVerifyImage(good, imageRef, Head(pubkeys))
         IN  IF o.verified THEN o
             ELSE VerifyUncached(good, imageRef, Tail(pubkeys))

\* Everything this Verify() call saw, in the cache and from the dispatcher,
\* is what that fixed dispatcher returns for the image and the key
SawOnly(p, good) ==
    LET st == vst[p] IN
    /\ \A n \in 1..Len(st.reads) :
          st.reads[n].r.found =>
              LET o == FixedVerifyImage(good, st.v.imageRef, st.reads[n].pubkey)
              IN  /\ st.reads[n].r.verified = o.verified
                  /\ st.reads[n].r.signerName = o.signerName
                  /\ st.reads[n].r.signedTimestamp = o.signedTimestamp
                  /\ st.reads[n].r.err = o.err
    /\ \A n \in 1..Len(st.calls) :
          st.calls[n].out = FixedVerifyImage(good, st.v.imageRef, st.calls[n].pubkey)

\* C13: caching is a pure optimization of Verify().  With the dispatcher a
\* fixed function of (imageRef, key), a call returns the (verified, signer,
\* signedAt) that the same call returns with caching disabled, whatever
\* earlier calls of verifiers over the same image left in the cache.
C13_CachingIsPureOptimization ==
    \A p \in Procs :
        pc[p] = "vdone" /\ vst[p].pubkeys # <<>> =>
            \A good \in SUBSET {vst[p].pubkeys[n] : n \in 1..Len(vst[p].pubkeys)} :
                SawOnly(p, good) =>
                    LET o == VerifyUncached(good, vst[p].v.imageRef, vst[p].pubkeys)
                    IN  /\ vst[p].ret.verified = o.verified
                        /\ vst[p].ret.signerName = o.signerName
                        /\ vst[p].ret.signedTimestamp = o.signedTimestamp

\* The manifest texts a returned fetcher call obtained, reference by reference
ObtainedAll(p) == [n \in 1..Len(fst[p].reads) |-> Obtained(p, n)]

\* Two returned Verify() calls of equal verifiers that read the same from the
\* cache and got the same from the dispatcher
SameVerify(p, q) ==
    /\ pc[p] = "vdone" /\ pc[q] = "vdone"
    /\ vst[p].v = vst[q].v
    /\ vst[p].reads = vst[q].reads
    /\ vst[p].calls = vst[q].calls

\* Two returned Fetch() (or two FetchAll()) calls of equal fetchers on the
\* same object that obtained the same texts
SameFetch(p, q) ==
    /\ pc[p] = "fdone" /\ pc[q] = "fdone"
    /\ fst[p].f = fst[q].f
    /\ fst[p].mode = fst[q].mode
    /\ fst[p].annotations = fst[q].annotations
    /\ ObtainedAll(p) = ObtainedAll(q)

\* C14: a failed cache write is never raised to the caller.  Two calls that
\* differ only in which of their cache writes failed return the same values,
\* for Verify(), Fetch() and FetchAll().
C14_SetFailureIsNotRaised ==
    \A p, q \in Procs :
        /\ SameVerify(p, q) => vst[p].ret = vst[q].ret
        /\ SameFetch(p, q) => fst[p].ret = fst[q].ret

\* C14's case: two Verify() calls that invoked the dispatcher twice each with
\* the same outcomes; every cache write of one succeeded, every cache write of
\* the other failed.
C14_Witness ==
    \E p, q \in Procs :
        /\ SameVerify(p, q)
        /\ Len(vst[p].sets) = 2 /\ Len(vst[q].sets) = 2
        /\ \A n \in 1..2 : vst[p].sets[n].ok /\ ~vst[q].sets[n].ok

\* The same for two Fetch() calls that pulled the image
C14_FetchWitness ==
    \E p, q \in Procs :
        /\ SameFetch(p, q)
        /\ fst[p].mode = "fetch"
        /\ Len(fst[p].sets) = 1 /\ Len(fst[q].sets) = 1
        /\ fst[p].sets[1].ok /\ ~fst[q].sets[1].ok

\* The same for two FetchAll() calls that pulled the image
C14_FetchAllWitness ==
    \E p, q \in Procs :
        /\ SameFetch(p, q)
        /\ fst[p].mode = "all"
        /\ Len(fst[p].sets) = 1 /\ Len(fst[q].sets) = 1
        /\ fst[p].sets[1].ok /\ ~fst[q].sets[1].ok

\* The cache loop of this Verify() call read an entry for every key of the
\* list and none of the entries is a success
AllCachedFailures(p) ==
    /\ vst[p].pubkeys # <<>>
    /\ Len(vst[p].reads) = Len(vst[p].pubkeys)
    /\ \A n \in 1..Len(vst[p].reads) :
          vst[p].reads[n].r.found /\ ~vst[p].reads[n].r.verified

\* C15: when every key has a cache hit and none of the cached entries is a
\* success, Verify() returns verified=false with the aggregate of the cached
\* error messages, in key order; the dispatcher is not invoked and nothing is
\* written to the cache during the call.
C15_FullyCachedFailure ==
    \A p \in Procs :
        InVerify(p) /\ AllCachedFailures(p) =>
            LET st == vst[p]
                cached == [n \in 1..Len(st.reads) |-> st.reads[n].r.err]
            IN  /\ pc[p] = "vdone"
                /\ st.ret = Returned(FALSE, <<>>, {}, VerificationFailedError(cached))
                /\ st.calls = <<>>
                /\ st.sets = <<>>

\* C15's case: two different keys, both with a cached failure.
C15_Witness ==
    \E p \in Procs :
        /\ InVerify(p) /\ AllCachedFailures(p)
        /\ Len(vst[p].pubkeys) = 2
        /\ vst[p].pubkeys[1] # vst[p].pubkeys[2]
        /\ pc[p] = "vdone"

\* The cache loop of this Verify() call is over, at least one key missed and
\* no key had a cached success
IncompleteCoverage(p) ==
    /\ InVerify(p)
    /\ Len(vst[p].reads) = Len(vst[p].pubkeys)
    /\ \E n \in 1..Len(vst[p].reads) : ~vst[p].reads[n].r.found
    /\ \A n \in 1..Len(vst[p].reads) : ~vst[p].reads[n].r.verified

\* C16: with incomplete cache coverage, live verification runs for the keys
\* in list order from the first key on, keys with a cached failure included,
\* until one verifies or the list ends; the outcome of each invocation is
\* written to the cache entry of its (imageRef, key) before the next key is
\* tried or Verify() returns, and a write that succeeds leaves that outcome
\* in the entry.
C16_LiveVerifiesEveryKeyAndWrites ==
    \A p \in Procs :
        IncompleteCoverage(p) =>
            LET st == vst[p] IN
            /\ pc[p] \in {"vlive", "vset", "vdone"}
            /\ Len(st.calls) <= Len(st.pubkeys)
            /\ \A n \in 1..Len(st.calls) :
                  /\ st.calls[n].pubkey = st.pubkeys[n]
                  /\ n < Len(st.calls) => ~st.calls[n].out.verified
            /\ Len(st.sets) = (IF pc[p] = "vset" THEN Len(st.calls) - 1
                               ELSE Len(st.calls))
            /\ \A n \in 1..Len(st.sets) :
                  /\ st.sets[n].pubkey = st.calls[n].pubkey
                  /\ (st.sets[n].ok /\ \A m \in (n + 1)..Len(st.sets) :
                          ~(st.sets[m].ok /\ st.sets[m].pubkey = st.sets[n].pubkey)) =>
                        LET r == getResultFromCache(st.v.imageRef, st.sets[n].pubkey)
                        IN  /\ r.found
                            /\ [verified |-> r.verified, signerName |-> r.signerName,
                                signedTimestamp |-> r.signedTimestamp,
                                err |-> r.err] = st.calls[n].out
            /\ pc[p] = "vdone" =>
                  /\ st.calls # <<>>
                  /\ Last(st.calls).out.verified \/ Len(st.calls) = Len(st.pubkeys)

\* C16's case: the first key has a cached failure, the second misses, and
\* the dispatcher was invoked for both, the first one first.
C16_Witness ==
    \E p \in Procs :
        /\ IncompleteCoverage(p)
        /\ pc[p] = "vdone"
        /\ vst[p].reads[1].r.found
        /\ ~vst[p].reads[2].r.found
        /\ Len(vst[p].calls) = 2
        /\ vst[p].calls[1].pubkey = vst[p].pubkeys[1]
        /\ vst[p].sets[1].ok

\* A returned Verify() call of a blob-path verifier whose signature source
\* could be read
BlobVerified(p) ==
    /\ pc[p] = "vdone"
    /\ vst[p].v.kind = "blob"
    /\ vst[p].v.resourceRef # <<>> => vst[p].reads[1].err = <<>>

\* The source of the signature fields: the referenced config object's data
\* map when a resource reference is set, the object's annotations otherwise
SignatureSource(p) ==
    IF vst[p].v.resourceRef # <<>> THEN vst[p].reads[1].data
    ELSE vst[p].v.annotations

\* The required fields the source does not have
MissingRequired(p) ==
    {MessageAnnotationBaseName, SignatureAnnotationBaseName} \ DOMAIN SignatureSource(p)

\* The error that names a missing field of the source
RequiredFieldMissing(p, k) ==
    Wrap(IF vst[p].v.resourceRef # <<>>
         THEN <<k, " is not found in the configmap ">> \o vst[p].v.resourceRef
         ELSE <<k, " is not found in the annotations">>,
         "failed to get signature")

\* Verify() fails, naming the missing key and invoking no dispatcher, exactly
\* when message or signature is absent from the source; certificate and
\* bundle play no part in it.
C17_AbsentRequiredFieldFails ==
    \A p \in Procs :
        BlobVerified(p) =>
            IF MissingRequired(p) # {}
            THEN /\ vst[p].calls = <<>>
                 /\ ~vst[p].ret.verified
                 /\ \E k \in MissingRequired(p) :
                       vst[p].ret.err = RequiredFieldMissing(p, k)
            ELSE \A k \in {MessageAnnotationBaseName, SignatureAnnotationBaseName,
                           CertificateAnnotationBaseName, BundleAnnotationBaseName} :
                    vst[p].ret.err # RequiredFieldMissing(p, k)

\* C17: BlobSignatureVerifier.Verify never hands a scheme dispatcher a bundle
\* that lacks the message or the signature.  When either is absent from the
\* source Verify() fails with an error naming the missing key and invokes no
\* dispatcher; the absence of certificate or bundle alone never causes that
\* failure.
C17_DispatcherGetsRequiredFields ==
    /\ C17_AbsentRequiredFieldFails
    /\ \A p \in Procs :
          BlobVerified(p) /\ vst[p].calls # <<>> =>
              /\ MessageAnnotationBaseName \in vst[p].calls[1].fields
              /\ SignatureAnnotationBaseName \in vst[p].calls[1].fields

\* The dispatcher outcomes this Verify() call got for a key
OutcomesFor(p, pubkey) ==
    {vst[p].calls[n].out : n \in {m \in 1..Len(vst[p].calls) :
                                      vst[p].calls[m].pubkey = pubkey}}

\* This Verify() call wrote the outcome of a key to the cache, successfully
Wrote(p, pubkey) ==
    \E n \in 1..Len(vst[p].sets) :
        vst[p].sets[n].pubkey = pubkey /\ vst[p].sets[n].ok

\* Two Verify() calls over the same image both missed the cache for a key
\* and both invoked the dispatcher for it
DuplicateVerify(p, q, pubkey) ==
    /\ p # q
    /\ InVerify(p) /\ InVerify(q)
    /\ vst[p].v.imageRef = vst[q].v.imageRef
    /\ \A c \in {p, q} :
          /\ \E n \in 1..Len(vst[c].reads) :
                vst[c].reads[n].pubkey = pubkey /\ ~vst[c].reads[n].r.found
          /\ OutcomesFor(c, pubkey) # {}

\* Two Fetch() / FetchAll() calls both missed the cache for an image and both
\* pulled it
DuplicatePull(p, q, imageRef) ==
    /\ p # q
    /\ \A c \in {p, q} :
          /\ pc[c] \in {"fset", "fget", "fpull", "fdone"}
          /\ \E n \in 1..Len(fst[c].reads) :
                fst[c].reads[n].ref = imageRef /\ ~fst[c].reads[n].r.found
          /\ \E n \in 1..Len(fst[c].pulls) : fst[c].pulls[n].ref = imageRef

\* The cache entry of (imageRef, key) is the outcome of one of the two calls'
\* invocations for the key
HoldsOneOutcome(p, q, pubkey) ==
    LET r == getResultFromCache(vst[p].v.imageRef, pubkey) IN
    /\ r.found
    /\ [verified |-> r.verified, signerName |-> r.signerName,
        signedTimestamp |-> r.signedTimestamp, err |-> r.err]
           \in OutcomesFor(p, pubkey) \cup OutcomesFor(q, pubkey)

\* A caller inside a call, and a caller whose call returned
InCall(p) == pc[p] \in {"vcache", "vlive", "vset", "fget", "fpull", "fset"}

CallReturned(p) == pc[p] \in {"vdone", "fdone"}

\* C18 as stated: after two concurrent Verify() calls both invoked the
\* dispatcher for the same uncached (imageRef, key) and both returned, the
\* cache holds the outcome of one of the two invocations.
C18_DuplicateLeavesOneOutcome ==
    \A p, q \in Procs : \A pubkey \in PubKeys :
        DuplicateVerify(p, q, pubkey) /\ pc[p] = "vdone" /\ pc[q] = "vdone" =>
            HoldsOneOutcome(p, q, pubkey)

\* The same, for the calls of which a cache write succeeded
DuplicateLeavesOneOutcomeIfWritten ==
    \A p, q \in Procs : \A pubkey \in PubKeys :
        DuplicateVerify(p, q, pubkey) /\ (Wrote(p, pubkey) \/ Wrote(q, pubkey)) =>
            HoldsOneOutcome(p, q, pubkey)

\* C18 (amended): there is no in-flight deduplication.  Two concurrent calls
\* may both miss and both invoke the dispatcher for a pair (both pull an
\* image); every call still returns, and once one of their cache writes for
\* the pair succeeded the entry holds the outcome of one of the two
\* invocations.
C18_NoDeduplication ==
    /\ [] DuplicateLeavesOneOutcomeIfWritten
    /\ \A p \in Procs : InCall(p) ~> CallReturned(p)

\* C18's case: both calls missed (a, c), both invoked the dispatcher for it
\* with different outcomes, both returned, and the entry is one of the two.
C18_Witness ==
    \E p, q \in Procs :
        /\ DuplicateVerify(p, q, <<"c">>)
        /\ pc[p] = "vdone" /\ pc[q] = "vdone"
        /\ OutcomesFor(p, <<"c">>) # OutcomesFor(q, <<"c">>)
        /\ Wrote(p, <<"c">>) /\ Wrote(q, <<"c">>)
        /\ HoldsOneOutcome(p, q, <<"c">>)

\* The same for two fetcher calls: both missed image "a", both pulled it,
\* both returned.
C18_PullWitness ==
    \E p, q \in Procs :
        /\ DuplicatePull(p, q, <<"a">>)
        /\ pc[p] = "fdone" /\ pc[q] = "fdone"

\* C19: the verify-image cache key is injective in (imageRef, key).  An
\* entry read for a pair was stored for that pair: what Verify() finds in
\* the cache for its image and key is an outcome of the dispatcher for that
\* image and that key, never the result of another pair.
C19_CacheKeyIsInjective ==
    \A p \in Procs :
        InVerify(p) =>
            \A n \in 1..Len(vst[p].reads) :
                LET read == vst[p].reads[n] IN
                read.r.found =>
                    [verified |-> read.r.verified, signerName |-> read.r.signerName,
                     signedTimestamp |-> read.r.signedTimestamp, err |-> read.r.err]
                        \in VerifyImageOutcomes(vst[p].v.imageRef, read.pubkey)

\* The texts a successful pull of an image can return
PulledTexts(imageRef) ==
    {o.bytes : o \in {x \in PullOutcomes(imageRef) : x.err = <<>>}}

\* The fetch-manifest entries are payloads of successful pulls, without error
OnlySuccessfulPullsCached ==
    \A imageRef \in ImageRefs :
        FetchManifestCacheKey(imageRef) \in DOMAIN cache =>
            LET entry == cache[FetchManifestCacheKey(imageRef)] IN
            /\ Len(entry) = 2
            /\ entry[1].type = "bytes"
            /\ entry[1].val \in PulledTexts(imageRef)
            /\ entry[2] = <<>>

\* C20: failed image fetches are never cached.  Every fetch-manifest entry
\* holds a nil error and the payload of a successful pull, a cache hit never
\* yields an error, a cache write follows a successful pull only, and a failed
\* pull leaves the image's entry as it was, so that the next Fetch() of the
\* image pulls it again.
C20_FailedFetchesAreNotCached ==
    /\ OnlySuccessfulPullsCached
    /\ \A p \in Procs :
          LET st == fst[p] IN
          st.f # <<>> /\ st.f.kind = "image" =>
              /\ \A n \in 1..Len(st.reads) :
                    st.reads[n].r.found =>
                        /\ st.reads[n].r.err = <<>>
                        /\ st.reads[n].r.bytes \in PulledTexts(st.reads[n].ref)
              /\ Len(st.sets) + (IF pc[p] = "fset" THEN 1 ELSE 0) =
                    Cardinality({n \in 1..Len(st.pulls) : st.pulls[n].err = <<>>})
              /\ \A n \in 1..Len(st.pulls) :
                    st.pulls[n].err # <<>> =>
                        /\ n = Len(st.pulls)
                        /\ pc[p] = "fdone"
                        /\ getManifestFromCache(st.pulls[n].ref).found = FALSE

\* C20's case: a call cached the text of its first image, the pull of its
\* second image failed, and the second image has no entry.
C20_Witness ==
    \E p \in Procs :
        /\ pc[p] = "fdone"
        /\ Len(fst[p].pulls) = 2
        /\ fst[p].sets = <<[ref |-> fst[p].refs[1], ok |-> TRUE]>>
        /\ fst[p].pulls[2].err # <<>>
        /\ FetchManifestCacheKey(fst[p].refs[1]) \in DOMAIN cache
        /\ FetchManifestCacheKey(fst[p].refs[2]) \notin DOMAIN cache

\* The verify-image cache keys of the pairs a verifier may be built over
VerifyImageKeys ==
    {VerifyImageCacheKey(imageRef, pubkey) : imageRef \in ImageRefs, pubkey \in PubKeys}

\* The entry under a key is a verify-image result with verified = true
RecordsSuccess(c, key) ==
    /\ key \in DOMAIN c
    /\ Len(c[key]) = 4
    /\ c[key][1] = TRUE

\* C21: a verify-image entry that records verified=true is never replaced by
\* one that records verified=false, whatever Verify() calls share the cache
\* and however their steps interleave: once the entry of a pair records
\* success, every later read of the pair sees success.
C21_SuccessIsNeverReplaced ==
    [][\A key \in VerifyImageKeys :
           RecordsSuccess(cache, key) => RecordsSuccess(cache', key)]_vars

====
